---- MODULE Spec2Model ----
(***************************************************************************)
(* SimpleTCPResponder: the ServerManager lifecycle (src/main.py), the      *)
(* EchoServer (src/servers/echo_server.py) and the WebServer               *)
(* (src/servers/web_server.py), as an asyncio program.                     *)
(*                                                                         *)
(* Granularity: one action is one step of one asyncio task, that is the    *)
(* code between two suspension points (await).  The event loop runs one    *)
(* such step at a time; the order of ready tasks is left open.             *)
(*                                                                         *)
(* Environment (not under src/): the OS socket table (lsn), the asyncio    *)
(* Server object (close / wait_closed / serve_forever), task cancellation, *)
(* TCP delivery to the StreamReader, signals.                              *)
(***************************************************************************)
EXTENDS Integers, Sequences, FiniteSets, TLC

VARIABLES
    config,        \* Config.servers handed to ServerManager(config)
    servers,       \* ServerManager.servers: the instances' constructor fields
    inst,          \* per instance: _running, self.server / site server, self.runner
    lsn,           \* per instance: its listening socket in the OS: none/open/closed
    tasks,         \* ServerManager.tasks: one record per serving task
    _shutdown,     \* ServerManager._shutdown
    mainPc,        \* position of run_servers
    handlers,      \* signals with an installed handler
    sa,            \* the stop_all invocations: 0 is run_servers' own, k>0 a signal's
    stops,         \* the server.stop() coroutines gathered by stop_all
    sigLog,        \* signals delivered so far, in order
    waitBlocks,    \* asyncio build: Server.wait_closed waits for open connections
    conns,         \* the echo connections accepted so far, in order of accept
    resp,          \* the web.Response handle_request returned last
    lim,           \* how much the environment does in this run
    hist,          \* history: facts recorded when a step happens
    io             \* src/config.py at work: a Config object, its file, the calls' results

vars == <<config, servers, inst, lsn, tasks, _shutdown, mainPc, handlers, sa,
          stops, sigLog, waitBlocks, conns, resp, lim, hist, io>>

\* fixed during a run of the manager
env == <<config, waitBlocks, lim, io>>

----------------------------------------------------------------------------
(* Bounds *)

MaxServers == 2    \* servers in a configuration
MaxSignals == 2    \* signals delivered in a run

----------------------------------------------------------------------------
(* Values *)

None == <<"None">>
Wildcard == "0.0.0.0"
Loopback == "127.0.0.1"
Signals == {"SIGINT", "SIGTERM"}
Endpoints == {<<Loopback, 8080>>, <<Wildcard, 80>>}
PlainText == <<"o", "k">>

Range(s) == {s[i] : i \in DOMAIN s}

\* what a call does: it returns a value or raises
Returned(v) == [raises |-> "", value |-> v]
Raised(e) == [raises |-> e, value |-> <<>>]

SeqsUpTo(S, n) == UNION {[1..k -> S] : k \in 0..n}

\* dataclass ServerConfig(type, port, content=None, bind_address='0.0.0.0')
ServerConfig(type, port, content, bind_address) ==
    [type |-> type, port |-> port, content |-> content, bind_address |-> bind_address]

\* the server descriptions a run is started with
ServerConfigs ==
    {ServerConfig("echo", e[2], None, e[1]) : e \in Endpoints}
    \cup {ServerConfig("web", e[2], PlainText, e[1]) : e \in Endpoints}

----------------------------------------------------------------------------
(* Construction *)

\* EchoServer.__init__
EchoServer(port, bind_address) ==
    [kind |-> "echo", port |-> port, bind_address |-> bind_address, content |-> None]

\* WebServer.__init__
WebServer(port, content, bind_address) ==
    [kind |-> "web", port |-> port, bind_address |-> bind_address, content |-> content]

\* an instance that reports running from its construction on
NewInstanceRunning == [_running |-> TRUE, server |-> FALSE, runner |-> FALSE]

\* the mutable fields both constructors initialise: server/runner None, _running False
NewInstance == [_running |-> FALSE, server |-> FALSE, runner |-> FALSE]

\* a loop that gives up at the first description of an unknown type
RECURSIVE create_servers_until_unknown(_)
create_servers_until_unknown(cfgs) ==
    IF cfgs = <<>> THEN <<>>
    ELSE LET c == Head(cfgs)
             rest == create_servers_until_unknown(Tail(cfgs))
         IN  IF c.type = "echo" THEN <<EchoServer(c.port, c.bind_address)>> \o rest
             ELSE IF c.type = "web"
                  THEN <<WebServer(c.port, c.content, c.bind_address)>> \o rest
                  ELSE <<>>

\* ServerManager.create_servers: the loop over config.servers
RECURSIVE create_servers(_)
create_servers(cfgs) ==
    IF cfgs = <<>> THEN <<>>
    ELSE LET c == Head(cfgs)
             rest == create_servers(Tail(cfgs))
         IN  IF c.type = "echo" THEN <<EchoServer(c.port, c.bind_address)>> \o rest
             ELSE IF c.type = "web"
                  THEN <<WebServer(c.port, c.content, c.bind_address)>> \o rest
                  ELSE rest

\* the logger.error calls of that loop: one per description of an unknown type
RECURSIVE unknown_types(_)
unknown_types(cfgs) ==
    IF cfgs = <<>> THEN <<>>
    ELSE (IF Head(cfgs).type \in {"echo", "web"} THEN <<>> ELSE <<Head(cfgs).type>>)
         \o unknown_types(Tail(cfgs))

Idx == DOMAIN servers
TaskIdx == DOMAIN tasks

\* is_running()
is_running(i) == inst[i]._running

----------------------------------------------------------------------------
(* Tasks *)

NewTask == [pc |-> "created", cancel |-> FALSE]
Ended == {"returned", "raised", "cancelled", "done"}
done(t) == t.pc \in Ended

\* task.cancel(): a request the task meets at its next step; no effect once done
cancel(t) == IF done(t) THEN t ELSE [t EXCEPT !.cancel = TRUE]

SetInst(i, f) == inst' = [inst EXCEPT ![i] = f]
SetTask(i, pc) == tasks' = [tasks EXCEPT ![i] = [pc |-> pc, cancel |-> FALSE]]

\* connections attached to instance i's asyncio.Server
ActiveCount(i) == Cardinality({c \in DOMAIN conns : conns[c].srv = i /\ conns[c].pc # "done"})

\* Server.wait_closed() returns at once
WaitClosedReturns(i) == ~waitBlocks \/ ActiveCount(i) = 0

----------------------------------------------------------------------------
(* The OS socket table *)

\* two listening sockets cannot coexist on these endpoints
Conflict(a, b) ==
    /\ a.port = b.port
    /\ a.bind_address = b.bind_address \/ Wildcard \in {a.bind_address, b.bind_address}

InUse(i) == \E j \in Idx : j # i /\ lsn[j] = "open" /\ Conflict(servers[i], servers[j])

\* a bind with reuse_port=True succeeds on an endpoint in use
CanBindShared(i) == TRUE

MaxPort == 65535   \* the largest TCP port

\* asyncio.start_server(handle_client, bind_address, port) / TCPSite(...).start():
\* no reuse_port, so the bind succeeds only on a free endpoint; a port that is no
\* port number makes bind() raise (port 0 asks the OS for a free port)
CanBind(i) == servers[i].port \in 0..MaxPort /\ ~InUse(i)

\* the OS may also refuse a free endpoint (a privileged port, a foreign process)
MayRefuse(i) == servers[i].port < 1024

----------------------------------------------------------------------------
NoResponse == [srv |-> 0]

\* what the host's resolver and routing table answer to get_active_ip_addresses
Network(addr_info, primary_ip) == [addr_info |-> addr_info, primary_ip |-> primary_ip]
HostIP == <<192, 0, 2, 7>>
OtherIP == <<198, 51, 100, 9>>
LoopbackIP == <<127, 0, 1, 1>>

\* a host without network: the name resolves to a loopback address, no route
Offline == Network(Returned(<<LoopbackIP>>), Raised("OSError"))

\* start_all has not asked for the host's addresses
NotEnumerated == [attempted |-> FALSE, net |-> <<>>, active |-> Returned(<<>>)]

Networks ==
    {Offline,
     Network(Raised("gaierror"), Returned(HostIP)),
     Network(Returned(<<>>), Returned(<<>>)),
     Network(Returned(<<HostIP>>), Raised("OSError")),
     Network(Returned(<<LoopbackIP, HostIP, HostIP>>), Returned(HostIP)),
     Network(Returned(<<HostIP>>), Returned(OtherIP))}

\* no Config object is being validated, saved or loaded
NoIO == [obj |-> <<>>]

\* the manager's variables after ServerManager(config), for a configuration out of cfgs
InitManager(cfgs, limits, builds) ==
    /\ config \in cfgs
    /\ lim = limits
    /\ waitBlocks \in builds
    /\ conns = <<>>
    /\ resp = NoResponse
    /\ servers = <<>>
    /\ inst = <<>>
    /\ lsn = <<>>
    /\ tasks = <<>>
    /\ _shutdown = FALSE
    /\ mainPc = "init"
    /\ handlers = {}
    /\ sa = [k \in 0..limits.signals |-> "none"]
    /\ stops = <<>>
    /\ sigLog = <<>>
    /\ hist = [stopRuns |-> 0, by |-> -1, noop |-> "none", upAtStop |-> FALSE, binds |-> <<>>,
               lsnAtStop |-> <<>>, errors |-> <<>>, again |-> {}, ips |-> NotEnumerated]

\* the state after ServerManager(config), for a configuration out of cfgs
InitWith(cfgs, limits, builds) == InitManager(cfgs, limits, builds) /\ io = NoIO

----------------------------------------------------------------------------
(* run_servers and ServerManager.start_all *)

\* run_servers: manager = ServerManager(config); manager.create_servers();
\* if not manager.servers: sys.exit(1)
CreateServers ==
    /\ mainPc = "init"
    /\ servers' = create_servers(config)
    /\ inst' = [i \in DOMAIN servers' |-> NewInstance]
    /\ lsn' = [i \in DOMAIN servers' |-> "none"]
    /\ hist' = [hist EXCEPT !.binds = [i \in DOMAIN servers' |-> 0],
                            !.lsnAtStop = [i \in DOMAIN servers' |-> "none"],
                            !.errors = unknown_types(config)]
    /\ mainPc' = IF servers' = <<>> THEN "exit1" ELSE "created"
    /\ UNCHANGED <<env, conns, resp, tasks, _shutdown, handlers, sa, stops, sigLog>>

\* manager.create_servers() called by a caller other than run_servers: no exit
create_servers_only ==
    /\ mainPc = "init"
    /\ servers' = create_servers(config)
    /\ inst' = [i \in DOMAIN servers' |-> NewInstance]
    /\ lsn' = [i \in DOMAIN servers' |-> "none"]
    /\ hist' = [hist EXCEPT !.binds = [i \in DOMAIN servers' |-> 0],
                            !.lsnAtStop = [i \in DOMAIN servers' |-> "none"],
                            !.errors = unknown_types(config)]
    /\ mainPc' = "created"
    /\ UNCHANGED <<env, conns, resp, tasks, _shutdown, handlers, sa, stops, sigLog>>

\* a handler for Ctrl+C alone
handled_sigint_only == {"SIGINT"}

\* for sig in (signal.SIGINT, signal.SIGTERM)
handled_signals == {"SIGINT", "SIGTERM"}

\* ServerManager.setup_signal_handlers: the same signal_handler for both signals
setup_signal_handlers ==
    /\ mainPc = "created"
    /\ handlers' = handled_signals
    /\ mainPc' = "handlers"
    /\ UNCHANGED <<env, conns, resp, servers, inst, lsn, tasks, _shutdown, sa, stops, sigLog, hist>>

\* a start_all without its test for an empty list
no_servers_unchecked == FALSE

\* if not self.servers
no_servers == servers = <<>>

\* a host address as its four numbers
InLoopbackNet(ip) == ip[1] = 127    \* ip.startswith('127.')
In(ip, ips) == \E k \in DOMAIN ips : ips[k] = ip

\* for info in addr_info: the addresses outside 127/8, each once, in order
RECURSIVE collect(_, _)
collect(addr_info, ip_addresses) ==
    IF addr_info = <<>> THEN ip_addresses
    ELSE LET ip == Head(addr_info)
         IN  collect(Tail(addr_info),
                     IF ~InLoopbackNet(ip) /\ ~In(ip, ip_addresses)
                     THEN Append(ip_addresses, ip) ELSE ip_addresses)

\* an enumeration whose resolver error is not caught
get_active_ip_addresses_unguarded(addr_info, primary_ip) ==
    IF addr_info.raises # "" THEN addr_info
    ELSE Returned(collect(addr_info.value, <<>>))

\* get_active_ip_addresses, given what gethostname/getaddrinfo and the UDP socket's
\* connect/getsockname do: an error of the former is caught by the outer except
\* (the list is still empty), an error of the latter by the inner one
get_active_ip_addresses(addr_info, primary_ip) ==
    IF addr_info.raises # "" THEN Returned(<<>>)
    ELSE LET ip_addresses == collect(addr_info.value, <<>>)
         IN  IF primary_ip.raises # "" THEN Returned(ip_addresses)
             ELSE IF /\ primary_ip.value # <<>>
                     /\ ~InLoopbackNet(primary_ip.value)
                     /\ ~In(primary_ip.value, ip_addresses)
                  THEN Returned(<<primary_ip.value>> \o ip_addresses)
                  ELSE Returned(ip_addresses)

\* any(server.bind_address == '0.0.0.0' for server in self.servers)
has_wildcard_bind == \E i \in Idx : servers[i].bind_address = Wildcard

\* ServerManager.start_all up to its await: one task per instance, the summary with
\* the host's addresses if an instance binds 0.0.0.0, then gather; an exception out
\* of the summary would leave start_all before the gather
start_all ==
    /\ mainPc = "handlers"
    /\ IF no_servers
       THEN /\ mainPc' = "finally"
            /\ sa' = [sa EXCEPT ![0] = "created"]
            /\ UNCHANGED <<tasks, hist>>
       ELSE \E n \in lim.nets :
              LET active_ips == IF has_wildcard_bind
                                THEN get_active_ip_addresses(n.addr_info, n.primary_ip)
                                ELSE Returned(<<>>)
              IN  /\ tasks' = [i \in Idx |-> NewTask]
                  /\ hist' = [hist EXCEPT !.ips =
                                 IF has_wildcard_bind
                                 THEN [attempted |-> TRUE, net |-> n, active |-> active_ips]
                                 ELSE NotEnumerated]
                  /\ IF active_ips.raises = ""
                     THEN mainPc' = "gather" /\ UNCHANGED sa
                     ELSE mainPc' = "finally" /\ sa' = [sa EXCEPT ![0] = "created"]
    /\ UNCHANGED <<env, conns, resp, servers, inst, lsn, _shutdown, handlers, stops, sigLog>>

\* a wait that is over when the first task is (return_when=FIRST_COMPLETED)
gather_first_done(ts) == \E i \in DOMAIN ts : done(ts[i])

\* a gather that gives up at the first task that raised (return_exceptions=False)
gather_first_exception(ts) ==
    (\A i \in DOMAIN ts : done(ts[i])) \/ (\E i \in DOMAIN ts : ts[i].pc = "raised")

\* asyncio.gather(*self.tasks, return_exceptions=True) has a result
gather_done(ts) == \A i \in DOMAIN ts : done(ts[i])

\* start_all returns; run_servers' finally calls stop_all
start_all_return ==
    /\ mainPc = "gather"
    /\ gather_done(tasks)
    /\ mainPc' = "finally"
    /\ sa' = [sa EXCEPT ![0] = "created"]
    /\ UNCHANGED <<env, conns, resp, servers, inst, lsn, tasks, _shutdown, handlers, stops,
                   sigLog, hist>>

\* the process receives sig while the loop runs.  signal_handler(sig):
\* loop.create_task(self.stop_all()); a signal without a handler ends the process
signal_handler(sig) ==
    /\ mainPc \in {"gather", "stopping"}
    /\ Len(sigLog) < lim.signals
    /\ sigLog' = Append(sigLog, sig)
    /\ IF sig \in handlers
       THEN sa' = [sa EXCEPT ![Len(sigLog) + 1] = "created"] /\ UNCHANGED mainPc
       ELSE mainPc' = "killed" /\ UNCHANGED sa
    /\ UNCHANGED <<env, conns, resp, servers, inst, lsn, tasks, _shutdown, handlers, stops, hist>>

----------------------------------------------------------------------------
(* ServerManager.stop_all *)

\* a stop_all without its guard
never_stopping == FALSE

\* if self._shutdown: return
already_stopping == _shutdown

\* every instance is up (serving) or has ended
AllUp == tasks # <<>> /\ \A i \in TaskIdx : tasks[i].pc = "serving" \/ done(tasks[i])

\* stop_all up to its await: the guard, the flag, one stop() per instance, gather
stop_all_enter(k) ==
    /\ sa[k] = "created"
    /\ IF already_stopping
       THEN /\ sa' = [sa EXCEPT ![k] = "done"]
            /\ mainPc' = IF k = 0 THEN "returned" ELSE mainPc
            /\ hist' = [hist EXCEPT !.noop = IF sa[hist.by] = "done" THEN "after" ELSE "during"]
            /\ UNCHANGED <<_shutdown, stops>>
       ELSE /\ _shutdown' = TRUE
            /\ stops' = [i \in Idx |-> "created"]
            /\ sa' = [sa EXCEPT ![k] = "gather"]
            /\ mainPc' = IF k = 0 THEN "stopping" ELSE mainPc
            /\ hist' = [hist EXCEPT !.stopRuns = @ + 1, !.by = k, !.upAtStop = AllUp]
    /\ UNCHANGED <<env, conns, resp, servers, inst, lsn, tasks, handlers, sigLog>>

\* a gather that passes on the first exception of a stop() (return_exceptions=False)
gather_stops_raising(ss) ==
    IF \E i \in DOMAIN ss : ss[i] = "raised" THEN "exception"
    ELSE IF \A i \in DOMAIN ss : ss[i] = "done" THEN "result" ELSE "pending"

\* asyncio.gather(*stop_tasks, return_exceptions=True): a result once every stop()
\* has returned or raised
gather_stops(ss) ==
    IF \A i \in DOMAIN ss : ss[i] \in {"done", "raised"} THEN "result" ELSE "pending"

\* stop_all after gather(*stop_tasks): cancel every task that is not done; an
\* exception out of the gather would leave stop_all before that loop
stop_all_finish(k) ==
    /\ sa[k] = "gather"
    /\ gather_stops(stops) # "pending"
    /\ IF gather_stops(stops) = "result"
       THEN /\ tasks' = [i \in TaskIdx |-> cancel(tasks[i])]
            /\ sa' = [sa EXCEPT ![k] = "done"]
       ELSE /\ sa' = [sa EXCEPT ![k] = "raised"]
            /\ UNCHANGED tasks
    /\ mainPc' = IF k = 0 THEN "returned" ELSE mainPc
    /\ UNCHANGED <<env, conns, resp, servers, inst, lsn, _shutdown, handlers, stops, sigLog, hist>>

\* a teardown that also empties the manager's list of instances
loop_teardown_dropping_servers ==
    /\ mainPc = "returned"
    /\ mainPc' = "closed"
    /\ servers' = <<>>
    /\ UNCHANGED <<env, resp, sa, stops, handlers, conns, inst, lsn, tasks, _shutdown, sigLog, hist>>

\* asyncio.run after run_servers returned: the tasks left over are cancelled
loop_teardown ==
    /\ mainPc = "returned"
    /\ mainPc' = "closed"
    /\ sa' = [k \in DOMAIN sa |-> IF sa[k] \in {"created", "gather"} THEN "cancelled" ELSE sa[k]]
    /\ stops' = [i \in DOMAIN stops |->
                    IF stops[i] \in {"done", "raised"} THEN stops[i] ELSE "cancelled"]
    /\ handlers' = {}
    /\ conns' = [c \in DOMAIN conns |-> cancel(conns[c])]
    /\ UNCHANGED <<env, resp, servers, inst, lsn, tasks, _shutdown, sigLog, hist>>

\* the process's exit status once it has terminated: sys.exit(1) in run_servers, or
\* asyncio.run and then main returning normally; -1 while it runs (or was killed)
exit_status == IF mainPc = "exit1" THEN 1 ELSE IF mainPc = "closed" THEN 0 ELSE -1

----------------------------------------------------------------------------
(* Steps shared by the serving tasks *)

IsTask(i, kind, pcs) == i \in TaskIdx /\ servers[i].kind = kind /\ tasks[i].pc \in pcs

\* Server.close() / site.stop(): the listening socket is closed
closed(i) == [lsn EXCEPT ![i] = IF @ = "open" THEN "closed" ELSE @]

Bound(i) == hist' = [hist EXCEPT !.binds[i] = @ + 1]

\* history: the state of the instance's listening socket as its stop() is called
StopCalled(i) == hist' = [hist EXCEPT !.lsnAtStop[i] = lsn[i]]

\* a task cancelled before its first step never runs its coroutine
task_cancelled_unstarted(i) ==
    /\ i \in TaskIdx /\ tasks[i].pc = "created" /\ tasks[i].cancel
    /\ SetTask(i, "cancelled")
    /\ UNCHANGED <<env, conns, resp, servers, inst, lsn, _shutdown, mainPc, handlers, sa, stops,
                   sigLog, hist>>

\* start() is called once more on an instance that served, whose stop() has completed
\* and whose first start() has ended, once the run is over (it outlives the loop);
\* start() has no test of its own for that, so it begins like the first call
start_again(i) ==
    /\ mainPc = "closed"
    /\ i \in DOMAIN stops /\ stops[i] = "done" /\ done(tasks[i])
    /\ inst[i].server /\ ~is_running(i) /\ lsn[i] = "closed"
    /\ i \notin hist.again /\ Cardinality(hist.again) < lim.restarts
    /\ tasks' = [tasks EXCEPT ![i] = NewTask]
    /\ hist' = [hist EXCEPT !.again = @ \cup {i}]
    /\ UNCHANGED <<env, conns, resp, servers, inst, lsn, _shutdown, mainPc, handlers, sa, stops,
                   sigLog>>

----------------------------------------------------------------------------
(* EchoServer.start *)

\* start() up to `await asyncio.start_server(...)`
echo_start(i) ==
    /\ IsTask(i, "echo", {"created"}) /\ ~tasks[i].cancel
    /\ SetTask(i, "binding")
    /\ UNCHANGED <<env, conns, resp, servers, inst, lsn, _shutdown, mainPc, handlers, sa, stops,
                   sigLog, hist>>

\* inside start_server: the socket is bound and listening; start_server has not
\* returned yet (create_server yields once after it starts serving)
echo_bind_ok(i) ==
    /\ IsTask(i, "echo", {"binding"}) /\ ~tasks[i].cancel
    /\ CanBind(i)
    /\ lsn' = [lsn EXCEPT ![i] = "open"]
    /\ SetTask(i, "bound")
    /\ Bound(i)
    /\ UNCHANGED <<env, conns, resp, servers, inst, _shutdown, mainPc, handlers, sa, stops,
                   sigLog>>

\* start_server raises OSError: except OSError: raise; finally: _running = False
echo_bind_fail(i) ==
    /\ IsTask(i, "echo", {"binding"}) /\ ~tasks[i].cancel
    /\ ~CanBind(i) \/ MayRefuse(i)
    /\ SetInst(i, [inst[i] EXCEPT !._running = FALSE])
    /\ SetTask(i, "raised")
    /\ Bound(i)
    /\ UNCHANGED <<env, conns, resp, servers, lsn, _shutdown, mainPc, handlers, sa, stops,
                   sigLog>>

\* start_server returned: self.server = ..., self._running = True, serve_forever()
echo_serve(i) ==
    /\ IsTask(i, "echo", {"bound"}) /\ ~tasks[i].cancel
    /\ SetInst(i, [inst[i] EXCEPT !.server = TRUE, !._running = TRUE])
    /\ SetTask(i, "serving")
    /\ UNCHANGED <<env, conns, resp, servers, lsn, _shutdown, mainPc, handlers, sa, stops,
                   sigLog, hist>>

\* cancelled while awaiting start_server: except CancelledError; finally
echo_start_cancelled(i) ==
    /\ IsTask(i, "echo", {"binding", "bound"}) /\ tasks[i].cancel
    /\ SetInst(i, [inst[i] EXCEPT !._running = FALSE])
    /\ SetTask(i, "returned")
    /\ UNCHANGED <<env, conns, resp, servers, lsn, _shutdown, mainPc, handlers, sa, stops,
                   sigLog, hist>>

\* serve_forever is cancelled (by task.cancel() or by Server.close()): it closes the
\* server and awaits wait_closed(); so does `async with self.server` on the way out;
\* then except CancelledError; finally: _running = False
echo_serve_cancelled(i) ==
    /\ IsTask(i, "echo", {"serving"}) /\ tasks[i].cancel
    /\ lsn' = closed(i)
    /\ IF WaitClosedReturns(i)
       THEN SetInst(i, [inst[i] EXCEPT !._running = FALSE]) /\ SetTask(i, "returned")
       ELSE SetTask(i, "wait_closed") /\ UNCHANGED inst
    /\ UNCHANGED <<env, conns, resp, servers, _shutdown, mainPc, handlers, sa, stops, sigLog, hist>>

\* serve_forever's wait_closed() returns when the last connection is gone; it is the
\* last suspension of start(): stop_all cancels a task once, and that cancellation
\* is the one that brought the task here
echo_wait_closed(i) ==
    /\ IsTask(i, "echo", {"wait_closed"})
    /\ ActiveCount(i) = 0
    /\ SetInst(i, [inst[i] EXCEPT !._running = FALSE])
    /\ SetTask(i, "returned")
    /\ UNCHANGED <<env, conns, resp, servers, lsn, _shutdown, mainPc, handlers, sa, stops, sigLog, hist>>

----------------------------------------------------------------------------
(* EchoServer.stop *)

\* a stop() that closes the server and leaves the flag to start()'s finally
echo_stop_keeps_flag(f) == f

\* self._running = False
echo_stop_flag(f) == [f EXCEPT !._running = FALSE]

\* Server.close() cancels the serve_forever future
serve_forever_cancelled(i) ==
    [tasks EXCEPT ![i] = IF @.pc = "serving" THEN [@ EXCEPT !.cancel = TRUE] ELSE @]

\* stop(): if self.server: self.server.close(); await self.server.wait_closed();
\* self._running = False
echo_stop(i) ==
    /\ i \in DOMAIN stops /\ stops[i] = "created" /\ servers[i].kind = "echo"
    /\ IF inst[i].server
       THEN /\ lsn' = closed(i)
            /\ tasks' = serve_forever_cancelled(i)
            /\ IF WaitClosedReturns(i)
               THEN /\ SetInst(i, echo_stop_flag(inst[i]))
                    /\ stops' = [stops EXCEPT ![i] = "done"]
               ELSE /\ stops' = [stops EXCEPT ![i] = "wait_closed"]
                    /\ UNCHANGED inst
       ELSE /\ stops' = [stops EXCEPT ![i] = "done"]
            /\ UNCHANGED <<inst, lsn, tasks>>
    /\ StopCalled(i)
    /\ UNCHANGED <<env, conns, resp, servers, _shutdown, mainPc, handlers, sa, sigLog>>

\* stop() after wait_closed()
echo_stop_closed(i) ==
    /\ i \in DOMAIN stops /\ stops[i] = "wait_closed"
    /\ ActiveCount(i) = 0
    /\ SetInst(i, echo_stop_flag(inst[i]))
    /\ stops' = [stops EXCEPT ![i] = "done"]
    /\ UNCHANGED <<env, conns, resp, servers, lsn, tasks, _shutdown, mainPc, handlers, sa,
                   sigLog, hist>>

\* a stop() that fails: server.close() / runner.cleanup() raises, and the rest of
\* the body (self._running = False) is not run
stop_raises(i) ==
    /\ i \in DOMAIN stops /\ stops[i] = "created"
    /\ IF servers[i].kind = "echo" THEN inst[i].server ELSE inst[i].runner
    /\ stops' = [stops EXCEPT ![i] = "raised"]
    /\ StopCalled(i)
    /\ UNCHANGED <<env, conns, resp, servers, inst, lsn, tasks, _shutdown, mainPc, handlers, sa,
                   sigLog>>

----------------------------------------------------------------------------
(* WebServer.start *)

\* start() up to `await self.runner.setup()`: self.app and self.runner are set
web_start(i) ==
    /\ IsTask(i, "web", {"created"}) /\ ~tasks[i].cancel
    /\ SetInst(i, [inst[i] EXCEPT !.runner = TRUE])
    /\ SetTask(i, "setup")
    /\ UNCHANGED <<env, conns, resp, servers, lsn, _shutdown, mainPc, handlers, sa, stops,
                   sigLog, hist>>

\* runner.setup() returned; site = web.TCPSite(...); await site.start()
web_setup_done(i) ==
    /\ IsTask(i, "web", {"setup"}) /\ ~tasks[i].cancel
    /\ SetTask(i, "binding")
    /\ UNCHANGED <<env, conns, resp, servers, inst, lsn, _shutdown, mainPc, handlers, sa, stops,
                   sigLog, hist>>

\* inside site.start(): the socket is bound and listening
web_bind_ok(i) ==
    /\ IsTask(i, "web", {"binding"}) /\ ~tasks[i].cancel
    /\ CanBind(i)
    /\ lsn' = [lsn EXCEPT ![i] = "open"]
    /\ SetTask(i, "bound")
    /\ Bound(i)
    /\ UNCHANGED <<env, conns, resp, servers, inst, _shutdown, mainPc, handlers, sa, stops,
                   sigLog>>

\* site.start() raises OSError: except OSError: raise; finally: await self.stop()
web_bind_fail(i) ==
    /\ IsTask(i, "web", {"binding"}) /\ ~tasks[i].cancel
    /\ ~CanBind(i) \/ MayRefuse(i)
    /\ SetTask(i, "cleanup_raise")
    /\ Bound(i)
    /\ UNCHANGED <<env, conns, resp, servers, inst, lsn, _shutdown, mainPc, handlers, sa, stops,
                   sigLog>>

\* site.start() returned: self._running = True; while self._running: sleep(1)
web_serve(i) ==
    /\ IsTask(i, "web", {"bound"}) /\ ~tasks[i].cancel
    /\ SetInst(i, [inst[i] EXCEPT !.server = TRUE, !._running = TRUE])
    /\ SetTask(i, "serving")
    /\ UNCHANGED <<env, conns, resp, servers, lsn, _shutdown, mainPc, handlers, sa, stops,
                   sigLog, hist>>

\* runner.cleanup() stops the sites it knows: a site whose start() returned
cleanup_begin(i) == IF inst[i].server THEN closed(i) ELSE lsn

\* the loop sees _running False after a sleep: finally: await self.stop()
web_serve_exit(i) ==
    /\ IsTask(i, "web", {"serving"}) /\ ~tasks[i].cancel
    /\ ~inst[i]._running
    /\ lsn' = cleanup_begin(i)
    /\ SetTask(i, "cleanup_return")
    /\ UNCHANGED <<env, conns, resp, servers, inst, _shutdown, mainPc, handlers, sa, stops,
                   sigLog, hist>>

\* cancelled at an await of the try block: except CancelledError; finally: stop()
web_start_cancelled(i) ==
    /\ IsTask(i, "web", {"setup", "binding", "bound", "serving"}) /\ tasks[i].cancel
    /\ lsn' = cleanup_begin(i)
    /\ SetTask(i, "cleanup_return")
    /\ UNCHANGED <<env, conns, resp, servers, inst, _shutdown, mainPc, handlers, sa, stops,
                   sigLog, hist>>

\* the finally's stop() after runner.cleanup(): self._running = False; a
\* cancellation during cleanup() leaves the finally with CancelledError
web_final_stop(i) ==
    /\ IsTask(i, "web", {"cleanup_return", "cleanup_raise"})
    /\ IF tasks[i].cancel
       THEN SetTask(i, "cancelled") /\ UNCHANGED inst
       ELSE /\ SetInst(i, [inst[i] EXCEPT !._running = FALSE])
            /\ SetTask(i, IF tasks[i].pc = "cleanup_raise" THEN "raised" ELSE "returned")
    /\ UNCHANGED <<env, conns, resp, servers, lsn, _shutdown, mainPc, handlers, sa, stops,
                   sigLog, hist>>

----------------------------------------------------------------------------
(* WebServer.stop *)

\* stop(): if self.runner: await self.runner.cleanup() ...
web_stop(i) ==
    /\ i \in DOMAIN stops /\ stops[i] = "created" /\ servers[i].kind = "web"
    /\ IF inst[i].runner
       THEN /\ lsn' = cleanup_begin(i)
            /\ stops' = [stops EXCEPT ![i] = "cleanup"]
       ELSE /\ stops' = [stops EXCEPT ![i] = "done"]
            /\ UNCHANGED lsn
    /\ StopCalled(i)
    /\ UNCHANGED <<env, conns, resp, servers, inst, tasks, _shutdown, mainPc, handlers, sa,
                   sigLog>>

\* ... self._running = False
web_stop_cleaned(i) ==
    /\ i \in DOMAIN stops /\ stops[i] = "cleanup"
    /\ SetInst(i, [inst[i] EXCEPT !._running = FALSE])
    /\ stops' = [stops EXCEPT ![i] = "done"]
    /\ UNCHANGED <<env, conns, resp, servers, lsn, tasks, _shutdown, mainPc, handlers, sa,
                   sigLog, hist>>

----------------------------------------------------------------------------
(* EchoServer.handle_client *)

MaxRead == 2       \* stands for the 1024 of reader.read(1024)

\* byte values: an ASCII letter and a byte that is not valid UTF-8
Bytes == {65, 255}

\* bytes.decode('utf-8', errors='replace') then encode: U+FFFD for an invalid byte
RECURSIVE reencoded(_)
reencoded(data) ==
    IF data = <<>> THEN <<>>
    ELSE (IF Head(data) < 128 THEN <<Head(data)>> ELSE <<239, 191, 189>>)
         \o reencoded(Tail(data))

\* what writer.write is given: the data as read
echoed_bytes(data) == data

\* a connection as asyncio.start_server hands it to handle_client, awaiting its
\* first read: fed = the bytes the peer sent (all fed to the StreamReader),
\* nread = how many of them reads have returned, out = the bytes written back
NewConn(i) ==
    [srv |-> i, pc |-> "read", cancel |-> FALSE, fed |-> <<>>, eof |-> FALSE,
     nread |-> 0, out |-> <<>>, broken |-> FALSE, closed |-> FALSE, why |-> "open"]

\* the StreamReader's buffer
rbuf(c) == SubSeq(c.fed, c.nread + 1, Len(c.fed))

\* a server that handles its connections one after the other
IsConnSerial(c, pcs) ==
    /\ c \in DOMAIN conns /\ conns[c].pc \in pcs
    /\ \A d \in 1..(c - 1) : conns[d].pc = "done"

\* the handler task of connection c (start_server runs one per connection) is at pcs
IsConn(c, pcs) == c \in DOMAIN conns /\ conns[c].pc \in pcs

SetConn(c, r) == conns' = [conns EXCEPT ![c] = r]

ConnFrame == UNCHANGED <<env, resp, servers, inst, lsn, tasks, _shutdown, mainPc, handlers,
                         sa, stops, sigLog, hist>>

\* a peer connects to a listening echo socket
client_connect(i) ==
    /\ i \in Idx /\ servers[i].kind = "echo" /\ lsn[i] = "open"
    /\ Len(conns) < lim.conns
    /\ conns' = Append(conns, NewConn(i))
    /\ ConnFrame

\* the peer's side: the connection is established and the server has not closed it
Connected(c) == c \in DOMAIN conns /\ conns[c].pc \in {"read", "drain"}

\* the peer writes a byte
client_send(c, b) ==
    /\ Connected(c)
    /\ ~conns[c].eof /\ ~conns[c].broken
    /\ Len(conns[c].fed) < lim.bytes
    /\ SetConn(c, [conns[c] EXCEPT !.fed = Append(@, b)])
    /\ ConnFrame

\* the peer closes its write side
client_close(c) ==
    /\ Connected(c)
    /\ ~conns[c].eof /\ ~conns[c].broken
    /\ SetConn(c, [conns[c] EXCEPT !.eof = TRUE])
    /\ ConnFrame

\* the connection breaks (reset by the peer): the pending read or drain will raise
client_reset(c) ==
    /\ Connected(c)
    /\ ~conns[c].eof /\ ~conns[c].broken
    /\ SetConn(c, [conns[c] EXCEPT !.broken = TRUE])
    /\ ConnFrame

\* a handler that hangs up once it has echoed a chunk
after_write_hang_up == "closing"

\* a loop that goes back to the read without awaiting the drain
after_write_no_drain == "read"

\* await writer.drain(): where the handler is suspended after writer.write(data)
after_write == "drain"

\* data = await reader.read(1024) returns bytes; writer.write(data); await drain()
echo_read(c) ==
    /\ IsConn(c, {"read"}) /\ ~conns[c].cancel /\ ~conns[c].broken
    /\ rbuf(conns[c]) # <<>>
    /\ LET buf == rbuf(conns[c])
           data == SubSeq(buf, 1, IF Len(buf) < MaxRead THEN Len(buf) ELSE MaxRead)
       IN  SetConn(c, [conns[c] EXCEPT !.nread = @ + Len(data),
                                       !.out = @ \o echoed_bytes(data),
                                       !.pc = after_write])
    /\ ConnFrame

\* drain() returned: back to the read
echo_drained(c) ==
    /\ IsConn(c, {"drain"}) /\ ~conns[c].cancel /\ ~conns[c].broken
    /\ SetConn(c, [conns[c] EXCEPT !.pc = "read"])
    /\ ConnFrame

\* an error path that ends the handler without closing the writer
close_unless_error(c, why) ==
    IF why = "error"
    THEN [c EXCEPT !.pc = "done", !.cancel = FALSE, !.why = why]
    ELSE [c EXCEPT !.pc = "closing", !.cancel = FALSE, !.why = why, !.closed = TRUE]

\* the loop is left for the reason why; finally: writer.close(); await wait_closed()
close_writer(c, why) == [c EXCEPT !.pc = "closing", !.cancel = FALSE, !.why = why, !.closed = TRUE]

\* a loop without the test for the end of the stream
no_data_ignored(data) == FALSE

\* if not data
no_data(data) == data = <<>>

\* read returned b'' at the end of the stream: break
echo_eof(c) ==
    /\ IsConn(c, {"read"}) /\ ~conns[c].cancel /\ ~conns[c].broken
    /\ conns[c].eof /\ no_data(rbuf(conns[c]))
    /\ SetConn(c, close_writer(conns[c], "eof"))
    /\ ConnFrame

\* read or drain raises: except Exception
echo_error(c) ==
    /\ IsConn(c, {"read", "drain"}) /\ ~conns[c].cancel /\ conns[c].broken
    /\ SetConn(c, close_writer(conns[c], "error"))
    /\ ConnFrame

\* the handler's task is cancelled: except asyncio.CancelledError
echo_cancelled(c) ==
    /\ IsConn(c, {"read", "drain"}) /\ conns[c].cancel
    /\ SetConn(c, close_writer(conns[c], "cancelled"))
    /\ ConnFrame

\* wait_closed() is over: the transport is detached from the server
echo_closed(c) ==
    /\ IsConn(c, {"closing"})
    /\ SetConn(c, [conns[c] EXCEPT !.pc = "done", !.cancel = FALSE])
    /\ ConnFrame

----------------------------------------------------------------------------
(* WebServer.handle_request *)

Whitespace == {" ", "\n", "\t"}

RECURSIVE lstrip(_)
lstrip(s) == IF s # <<>> /\ Head(s) \in Whitespace THEN lstrip(Tail(s)) ELSE s

RECURSIVE rstrip(_)
rstrip(s) ==
    IF s # <<>> /\ s[Len(s)] \in Whitespace THEN rstrip(SubSeq(s, 1, Len(s) - 1)) ELSE s

\* str.strip()
strip(s) == rstrip(lstrip(s))

\* str.startswith(prefix)
startswith(s, prefix) == Len(s) >= Len(prefix) /\ SubSeq(s, 1, Len(prefix)) = prefix

DOCTYPE == <<"<", "!", "D", "O", "C", "T", "Y", "P", "E">>
HTML == <<"<", "h", "t", "m", "l">>

\* the heuristic without the trimming
content_type_untrimmed(content) ==
    IF startswith(content, DOCTYPE) \/ startswith(content, HTML)
    THEN "text/html"
    ELSE "text/plain"

\* the content-type heuristic of handle_request
content_type(content) ==
    IF startswith(strip(content), DOCTYPE) \/ startswith(strip(content), HTML)
    THEN "text/html"
    ELSE "text/plain"

\* a body taken from the trimmed content
response_text_stripped(i) == strip(servers[i].content)

\* text=self.content
response_text(i) == servers[i].content

\* web.Response(text=self.content, content_type=..., headers={...}); status 200
Response(i) ==
    [srv |-> i, status |-> 200, text |-> response_text(i),
     content_type |-> content_type(servers[i].content),
     headers |-> [Server |-> "SimpleTCPResponder", X_Served_Port |-> servers[i].port]]

Methods == {"GET", "HEAD", "POST"}
Paths == {<<"/">>, <<"/", "t">>}

\* a request reaches the handler of a web instance that is listening
handle_request(i, method, path) ==
    /\ i \in Idx /\ servers[i].kind = "web" /\ lsn[i] = "open"
    /\ resp' = Response(i) @@ [method |-> method, path |-> path]
    /\ UNCHANGED <<env, conns, servers, inst, lsn, tasks, _shutdown, mainPc, handlers,
                   sa, stops, sigLog, hist>>

----------------------------------------------------------------------------
(* Specifications *)

Manager ==
    \/ CreateServers
    \/ setup_signal_handlers
    \/ start_all
    \/ start_all_return
    \/ \E sig \in Signals : signal_handler(sig)
    \/ \E k \in DOMAIN sa : stop_all_enter(k)
    \/ \E k \in DOMAIN sa : stop_all_finish(k)
    \/ loop_teardown
    \/ \E i \in TaskIdx : task_cancelled_unstarted(i)

EchoLife ==
    \/ \E i \in Idx : echo_start(i)
    \/ \E i \in Idx : echo_bind_ok(i)
    \/ \E i \in Idx : echo_bind_fail(i)
    \/ \E i \in Idx : echo_serve(i)
    \/ \E i \in Idx : echo_start_cancelled(i)
    \/ \E i \in Idx : echo_serve_cancelled(i)
    \/ \E i \in Idx : echo_stop(i)

EchoWait ==
    \/ \E i \in Idx : echo_wait_closed(i)
    \/ \E i \in Idx : echo_stop_closed(i)

WebLife ==
    \/ \E i \in Idx : web_start(i)
    \/ \E i \in Idx : web_setup_done(i)
    \/ \E i \in Idx : web_bind_ok(i)
    \/ \E i \in Idx : web_bind_fail(i)
    \/ \E i \in Idx : web_serve(i)
    \/ \E i \in Idx : web_serve_exit(i)
    \/ \E i \in Idx : web_start_cancelled(i)
    \/ \E i \in Idx : web_final_stop(i)
    \/ \E i \in Idx : web_stop(i)
    \/ \E i \in Idx : web_stop_cleaned(i)

EchoConn ==
    \/ \E i \in Idx : client_connect(i)
    \/ \E c \in DOMAIN conns, b \in Bytes : client_send(c, b)
    \/ \E c \in DOMAIN conns : client_close(c)
    \/ \E c \in DOMAIN conns : client_reset(c)
    \/ \E c \in DOMAIN conns : echo_read(c)
    \/ \E c \in DOMAIN conns : echo_drained(c)
    \/ \E c \in DOMAIN conns : echo_eof(c)
    \/ \E c \in DOMAIN conns : echo_error(c)
    \/ \E c \in DOMAIN conns : echo_cancelled(c)
    \/ \E c \in DOMAIN conns : echo_closed(c)

WebRequests == \E i \in Idx, m \in Methods, p \in Paths : handle_request(i, m, p)

\* the manager's lifecycle over every small configuration, no client traffic
Init == InitWith(SeqsUpTo(ServerConfigs, MaxServers),
                 [signals |-> MaxSignals, conns |-> 0, bytes |-> 0, nets |-> {Offline}], {FALSE})

Next == Manager \/ EchoLife \/ WebLife

Spec == Init /\ [][Next]_vars

\* the same runs on hosts whose address enumeration succeeds, finds nothing or fails
StartupSignals == 1   \* signals delivered in such a run

InitStartup == InitWith(SeqsUpTo(ServerConfigs, MaxServers),
                        [signals |-> StartupSignals, conns |-> 0, bytes |-> 0, nets |-> Networks],
                        {FALSE})

SpecStartup == InitStartup /\ [][Next]_vars

\* runs on a single description that upstream validation would have refused
InvalidConfigs ==
    {<<ServerConfig("echo", 0, None, Loopback)>>,
     <<ServerConfig("echo", MaxPort + 1, None, Loopback)>>,
     <<ServerConfig("web", 8080, None, Loopback)>>,
     <<ServerConfig("web", 80, <<>>, Wildcard)>>}

InitInvalid == InitWith(InvalidConfigs, [signals |-> MaxSignals, conns |-> 0, bytes |-> 0, nets |-> {Offline}], {FALSE})

SpecInvalid == InitInvalid /\ [][Next]_vars

\* the same runs, with stop() calls that may fail
NextStopFail == Next \/ \E i \in Idx : stop_raises(i)

SpecStopFail == Init /\ [][NextStopFail]_vars

\* construction alone, over configurations with descriptions of unknown types
MaxSpecs == 3      \* descriptions in such a configuration

UnknownConfigs ==
    {ServerConfig("udp", 8080, None, Loopback), ServerConfig("ECHO", 80, PlainText, Wildcard)}

InitCreate == InitWith(SeqsUpTo(ServerConfigs \cup UnknownConfigs, MaxSpecs),
                       [signals |-> 0, conns |-> 0, bytes |-> 0, nets |-> {Offline}], {FALSE})

NextCreate == CreateServers \/ create_servers_only \/ setup_signal_handlers \/ start_all

SpecCreate == InitCreate /\ [][NextCreate]_vars

\* echo traffic on one or two echo instances that stay up
MaxConns == 2      \* connections accepted in a run
MaxBytes == 2      \* bytes a peer sends on one connection

EchoConfigs ==
    {<<ServerConfig("echo", 8080, None, Loopback)>>,
     <<ServerConfig("echo", 8080, None, Loopback), ServerConfig("echo", 8081, None, Wildcard)>>}

InitEcho == InitWith(EchoConfigs, [signals |-> 0, conns |-> MaxConns, bytes |-> MaxBytes, nets |-> {Offline}], {FALSE})

NextEcho ==
    \/ CreateServers
    \/ setup_signal_handlers
    \/ start_all
    \/ \E i \in Idx : echo_start(i)
    \/ \E i \in Idx : echo_bind_ok(i)
    \/ \E i \in Idx : echo_serve(i)
    \/ \E i \in Idx : client_connect(i)
    \/ \E c \in DOMAIN conns, b \in Bytes : client_send(c, b)
    \/ \E c \in DOMAIN conns : client_close(c)
    \/ \E c \in DOMAIN conns : client_reset(c)
    \/ \E c \in DOMAIN conns : echo_read(c)
    \/ \E c \in DOMAIN conns : echo_drained(c)
    \/ \E c \in DOMAIN conns : echo_eof(c)
    \/ \E c \in DOMAIN conns : echo_error(c)
    \/ \E c \in DOMAIN conns : echo_closed(c)

SpecEcho == InitEcho /\ [][NextEcho]_vars

\* one echo connection whose peer sends more than one read returns
ReadBytes == 3     \* bytes the peer sends on that connection

InitRead ==
    InitWith({<<ServerConfig("echo", 8080, None, Loopback)>>},
             [signals |-> 0, conns |-> 1, bytes |-> ReadBytes, nets |-> {Offline}], {FALSE})

SpecRead == InitRead /\ [][NextEcho]_vars

\* an echo and a web instance with traffic and a shutdown, on either asyncio build
ServeConns == 1    \* connections accepted in a run with a shutdown
ServeBytes == 1    \* bytes a peer sends on one of them
ServeSignals == 1  \* signals delivered in such a run

ServeConfigs ==
    {<<ServerConfig("echo", 80, None, Loopback), ServerConfig("web", 443, PlainText, Wildcard)>>}

InitServe == InitWith(ServeConfigs,
                      [signals |-> ServeSignals, conns |-> ServeConns, bytes |-> ServeBytes, nets |-> {Offline}],
                      BOOLEAN)

NextServe == Manager \/ EchoLife \/ EchoWait \/ WebLife \/ EchoConn \/ WebRequests

SpecServe == InitServe /\ [][NextServe]_vars

\* the steps of the program's own tasks: the event loop runs every task that is
\* ready; signals, peers and requests are under no obligation
LoopSteps ==
    \/ CreateServers
    \/ setup_signal_handlers
    \/ start_all
    \/ start_all_return
    \/ \E k \in DOMAIN sa : stop_all_enter(k)
    \/ \E k \in DOMAIN sa : stop_all_finish(k)
    \/ loop_teardown
    \/ \E i \in TaskIdx : task_cancelled_unstarted(i)
    \/ EchoLife \/ EchoWait \/ WebLife
    \/ \E c \in DOMAIN conns : echo_read(c)
    \/ \E c \in DOMAIN conns : echo_drained(c)
    \/ \E c \in DOMAIN conns : echo_eof(c)
    \/ \E c \in DOMAIN conns : echo_error(c)
    \/ \E c \in DOMAIN conns : echo_cancelled(c)
    \/ \E c \in DOMAIN conns : echo_closed(c)

SpecServeFair == SpecServe /\ WF_vars(LoopSteps)

\* the same runs, followed by another start() on a stopped instance
MaxRestarts == 1   \* such calls in a run

InitRestart == InitWith(SeqsUpTo(ServerConfigs, MaxServers),
                        [signals |-> ServeSignals, conns |-> 0, bytes |-> 0, nets |-> {Offline}, restarts |-> MaxRestarts],
                        {FALSE})

NextRestart == Next \/ \E i \in Idx : start_again(i)

SpecRestart == InitRestart /\ [][NextRestart]_vars

\* echo connections next to each other, on one listener or two, and next to a web
\* instance, all staying up
MixConns == 2      \* connections accepted in such a run
MixBytes == 1      \* bytes a peer sends on one of them

MixConfigs ==
    {<<ServerConfig("echo", 8080, None, Loopback), ServerConfig("web", 8081, PlainText, Loopback)>>,
     <<ServerConfig("echo", 8080, None, Loopback), ServerConfig("echo", 8081, None, Wildcard)>>}

InitMix == InitWith(MixConfigs, [signals |-> 0, conns |-> MixConns, bytes |-> MixBytes, nets |-> {Offline}], {FALSE})

NextMix ==
    \/ NextEcho
    \/ \E i \in Idx : web_start(i)
    \/ \E i \in Idx : web_setup_done(i)
    \/ \E i \in Idx : web_bind_ok(i)
    \/ \E i \in Idx : web_serve(i)
    \/ WebRequests

SpecMix == InitMix /\ [][NextMix]_vars

\* web instances that stay up, over contents around the content-type heuristic
Bases ==
    {DOCTYPE \o <<" ", "h", "t", "m", "l", ">">>,
     HTML \o <<">", "h", "i">>,
     <<"<", "!", "d", "o", "c", "t", "y", "p", "e">>,
     <<"<", "H", "T", "M", "L", ">">>,
     <<"<", "!", "D", "O", "C", "T", "Y", "P">>,
     <<"<", "h", "t", "m">>,
     <<"x">> \o HTML,
     <<"<", " ", "h", "t", "m", "l">>,
     PlainText}

LeftPads == {<<>>, <<" ">>, <<"\n", "\t">>}
RightPads == {<<>>, <<"\n">>}

Contents == {l \o b \o r : l \in LeftPads, b \in Bases, r \in RightPads} \cup {<<" ">>}

WebConfigs ==
    {<<ServerConfig("web", 8080, c, Loopback)>> : c \in Contents}
    \cup {<<ServerConfig("web", 8080, c, Loopback), ServerConfig("web", 8081, d, Loopback)>> :
            c \in Contents, d \in {PlainText, HTML \o <<">">>}}

InitWeb == InitWith(WebConfigs, [signals |-> 0, conns |-> 0, bytes |-> 0, nets |-> {Offline}], {FALSE})

NextWeb ==
    \/ CreateServers
    \/ setup_signal_handlers
    \/ start_all
    \/ \E i \in Idx : web_start(i)
    \/ \E i \in Idx : web_setup_done(i)
    \/ \E i \in Idx : web_bind_ok(i)
    \/ \E i \in Idx : web_serve(i)
    \/ \E i \in Idx, m \in Methods, p \in Paths : handle_request(i, m, p)

SpecWeb == InitWeb /\ [][NextWeb]_vars

----------------------------------------------------------------------------
(* src/config.py: ServerConfig and Config *)

\* a Python value with its type: nothing checks a field's type before validate
PyInt(n) == <<"int", n>>
PyStr(s) == <<"str", s>>
PyBool(b) == <<"bool", b>>
PyNone == <<"NoneType">>

\* isinstance(v, int): bool is a subclass of int
isinstance_int(v) == v[1] \in {"int", "bool"}

\* the number an int or a bool compares as
IntOf(v) == IF v[1] = "bool" THEN (IF v[2] THEN 1 ELSE 0) ELSE v[2]

\* not v, for None and str
Not(v) == v = PyNone \/ (v[1] = "str" /\ v[2] = <<>>)

\* ServerConfig.validate
ServerConfig_validate(s) ==
    IF ~(s.type[1] = "str" /\ s.type[2] \in {"echo", "web"}) THEN Raised("ValueError")
    ELSE IF ~isinstance_int(s.port) \/ IntOf(s.port) < 1 \/ IntOf(s.port) > MaxPort
         THEN Raised("ValueError")
         ELSE IF s.type[2] = "web" /\ Not(s.content) THEN Raised("ValueError")
              ELSE Returned(PyNone)

MaxConfigured == 10   \* the most servers a configuration may hold

\* a limit that also refuses the tenth server
too_many_from_ten(ss) == Len(ss) >= MaxConfigured

\* len(self.servers) > 10
too_many(ss) == Len(ss) > MaxConfigured

\* server.port in ports
port_in(port, ports) == \E k \in DOMAIN ports : IntOf(ports[k]) = IntOf(port)

\* Config.validate: the loop over self.servers, with the ports seen so far
RECURSIVE validate_each(_, _)
validate_each(ss, ports) ==
    IF ss = <<>> THEN Returned(PyNone)
    ELSE LET server == Head(ss)
         IN  IF ServerConfig_validate(server).raises # "" THEN ServerConfig_validate(server)
             ELSE IF port_in(server.port, ports) THEN Raised("ValueError")
                  ELSE validate_each(Tail(ss), Append(ports, server.port))

\* Config.validate
Config_validate(ss) ==
    IF ss = <<>> THEN Raised("ValueError")
    ELSE IF too_many(ss) THEN Raised("ValueError")
         ELSE validate_each(ss, <<>>)

\* a dict is the sequence of its (key, value) items, in insertion order
has(d, key) == \E k \in DOMAIN d : d[k][1] = key
get(d, key, default) ==
    IF has(d, key) THEN d[CHOOSE k \in DOMAIN d : d[k][1] = key][2] ELSE default

\* a conversion that leaves out the address
asdict_without_address(s) ==
    <<<<"type", s.type>>, <<"port", s.port>>, <<"content", s.content>>>>

\* dataclasses.asdict(s): the fields in declaration order
asdict(s) ==
    <<<<"type", s.type>>, <<"port", s.port>>, <<"content", s.content>>,
      <<"bind_address", s.bind_address>>>>

\* Config.to_dict
to_dict(ss) == <<<<"servers", [i \in DOMAIN ss |-> asdict(ss[i])]>>>>

Fields == {"type", "port", "content", "bind_address"}

\* ServerConfig(**s): type and port are required, no other keyword is accepted
Accepted(s) == has(s, "type") /\ has(s, "port") /\ \A k \in DOMAIN s : s[k][1] \in Fields

\* ServerConfig(**s), with the defaults of the dataclass
FromKeywords(s) ==
    ServerConfig(get(s, "type", PyNone), get(s, "port", PyNone), get(s, "content", PyNone),
                 get(s, "bind_address", PyStr(Wildcard)))

\* Config.from_dict
from_dict(data) ==
    LET items == get(data, "servers", <<>>)
    IN  IF \A i \in DOMAIN items : Accepted(items[i])
        THEN Returned([i \in DOMAIN items |-> FromKeywords(items[i])])
        ELSE Raised("TypeError")

\* json.dump of a field's value: the JSON token written for it
json_value(v) ==
    IF v = PyNone THEN <<"null">>
    ELSE IF v[1] = "bool" THEN (IF v[2] THEN <<"true">> ELSE <<"false">>)
         ELSE IF v[1] = "int" THEN <<"number", v[2]>>
              ELSE <<"string", v[2]>>

\* json.load of a token: null, true, false, a number without fraction, a string
py_value(j) ==
    IF j = <<"null">> THEN PyNone
    ELSE IF j = <<"true">> THEN PyBool(TRUE)
         ELSE IF j = <<"false">> THEN PyBool(FALSE)
              ELSE IF j[1] = "number" THEN PyInt(j[2])
                   ELSE PyStr(j[2])

\* json.dump(self.to_dict(), f): the object with its array of objects
json_dump(data) ==
    [k \in DOMAIN data |->
        <<data[k][1], [i \in DOMAIN data[k][2] |->
                          [m \in DOMAIN data[k][2][i] |->
                              <<data[k][2][i][m][1], json_value(data[k][2][i][m][2])>>]]>>]

\* json.load(f)
json_load(text) ==
    [k \in DOMAIN text |->
        <<text[k][1], [i \in DOMAIN text[k][2] |->
                          [m \in DOMAIN text[k][2][i] |->
                              <<text[k][2][i][m][1], py_value(text[k][2][i][m][2])>>]]>>]

NoFile == <<"absent">>
NotCalled == Raised("not called")

\* Config.load: FileNotFoundError, else from_dict(json.load(f)) and validate
Config_load(file) ==
    IF file = NoFile THEN Raised("FileNotFoundError")
    ELSE LET made == from_dict(json_load(file[2]))
         IN  IF made.raises # "" THEN made
             ELSE IF Config_validate(made.value).raises # "" THEN Config_validate(made.value)
                  ELSE made

\* config.validate() on the object at hand
validate ==
    /\ io' = [io EXCEPT !.validated = Config_validate(io.obj)]
    /\ UNCHANGED <<config, waitBlocks, lim, servers, inst, lsn, tasks, _shutdown, mainPc,
                   handlers, sa, stops, sigLog, conns, resp, hist>>

\* Config.from_dict(config.to_dict())
to_from_dict ==
    /\ io' = [io EXCEPT !.restored = from_dict(to_dict(io.obj))]
    /\ UNCHANGED <<config, waitBlocks, lim, servers, inst, lsn, tasks, _shutdown, mainPc,
                   handlers, sa, stops, sigLog, conns, resp, hist>>

\* config.save(filepath)
save ==
    /\ io' = [io EXCEPT !.file = <<"written", json_dump(to_dict(io.obj))>>]
    /\ UNCHANGED <<config, waitBlocks, lim, servers, inst, lsn, tasks, _shutdown, mainPc,
                   handlers, sa, stops, sigLog, conns, resp, hist>>

\* Config.load(filepath)
load ==
    /\ io' = [io EXCEPT !.loaded = Config_load(io.file)]
    /\ UNCHANGED <<config, waitBlocks, lim, servers, inst, lsn, tasks, _shutdown, mainPc,
                   handlers, sa, stops, sigLog, conns, resp, hist>>

\* the field values the Config objects under test are built from
TypeValues == {PyStr("echo"), PyStr("web"), PyStr("udp")}
PortValues == {PyInt(0), PyInt(1), PyInt(80), PyInt(MaxPort), PyInt(MaxPort + 1),
               PyStr("80"), PyBool(TRUE)}
ContentValues == {PyNone, PyStr(<<>>), PyStr(PlainText)}
AddressValues == {PyStr(Wildcard), PyStr(Loopback)}

ServerObjects ==
    {ServerConfig(t, p, c, a) :
        t \in TypeValues, p \in PortValues, c \in ContentValues, a \in AddressValues}
    \cup {ServerConfig(PyNone, PyInt(80), PyNone, PyStr(Wildcard))}

FirstPort == 8000

\* n echo servers on consecutive ports
Row(n) == [k \in 1..n |-> ServerConfig(PyStr("echo"), PyInt(FirstPort + k), PyNone, PyStr(Wildcard))]

\* the Config objects under test: every one of up to two servers, and long ones
ConfigObjects ==
    SeqsUpTo(ServerObjects, MaxServers)
    \cup {Row(n) : n \in (MaxConfigured - 1)..(MaxConfigured + 1)}
    \cup {[Row(n) EXCEPT ![n].port = PyInt(FirstPort + 1)] : n \in {3, MaxConfigured}}
    \cup {[Row(n) EXCEPT ![n].type = PyStr("web")] : n \in {MaxConfigured, MaxConfigured + 1}}

InitConfig ==
    /\ InitManager({<<>>}, [signals |-> 0, conns |-> 0, bytes |-> 0, nets |-> {Offline}], {FALSE})
    /\ \E o \in ConfigObjects :
          io = [obj |-> o, validated |-> NotCalled, restored |-> NotCalled,
                file |-> NoFile, loaded |-> NotCalled]

NextConfig == validate \/ to_from_dict \/ save \/ load

SpecConfig == InitConfig /\ [][NextConfig]_vars

----------------------------------------------------------------------------
(* Claims *)

IsPrefix(a, b) == Len(a) <= Len(b) /\ SubSeq(b, 1, Len(a)) = a

\* the bytes the handler's reads have returned so far
Received(c) == SubSeq(c.fed, 1, c.nread)

\* C1: on every echo connection the bytes written back are, in order, exactly the
\* bytes the reads returned, always a prefix of what the peer sent, and the whole of
\* it once the handler has read up to the end of the stream
C1_EchoExact ==
    \A c \in DOMAIN conns :
        /\ conns[c].out = Received(conns[c])
        /\ IsPrefix(conns[c].out, conns[c].fed)
        /\ conns[c].why = "eof" => conns[c].out = conns[c].fed

\* a connection that sent two bytes, one of them not UTF-8, in two reads or one, and
\* was read to its end, while another connection has part of its bytes echoed
C1_Witness ==
    \E c, d \in DOMAIN conns :
        /\ conns[c].why = "eof" /\ Len(conns[c].fed) >= 2 /\ 255 \in Range(conns[c].fed)
        /\ conns[d].pc = "drain" /\ conns[d].nread = 1 /\ Len(conns[d].fed) = 2

\* C2: whatever the request, the response of a web instance has status 200 and a
\* body equal to the content that instance was configured with
C2_BodyIsContent ==
    resp # NoResponse =>
        /\ resp.status = 200
        /\ resp.text = config[resp.srv].content

\* the second of two instances with different contents answered a HEAD request, and
\* the first one's content has whitespace at both ends
C2_Witness ==
    /\ resp # NoResponse /\ resp.srv = 2 /\ resp.method = "HEAD" /\ resp.path = <<"/", "t">>
    /\ config[1].content # config[2].content
    /\ strip(config[1].content) # config[1].content

\* p occurs in s right after the first k elements
OccursAt(s, k, p) == Len(s) >= k + Len(p) /\ \A j \in 1..Len(p) : s[k + j] = p[j]

\* s begins, after its leading whitespace, with <!DOCTYPE or <html (case-sensitive)
HtmlLike(s) ==
    \E k \in 0..Len(s) :
        /\ \A j \in 1..k : s[j] \in Whitespace
        /\ k < Len(s) => s[k + 1] \notin Whitespace
        /\ OccursAt(s, k, DOCTYPE) \/ OccursAt(s, k, HTML)

\* C3: the content-type is text/html exactly when the configured content, after its
\* leading whitespace, begins with <!DOCTYPE or <html; otherwise it is text/plain
C3_ContentType ==
    resp # NoResponse =>
        resp.content_type =
            IF HtmlLike(config[resp.srv].content) THEN "text/html" ELSE "text/plain"

\* an html response for a content that starts with whitespace
C3_Witness ==
    /\ resp # NoResponse /\ resp.content_type = "text/html"
    /\ Head(resp.text) \in Whitespace

Failed(i) == tasks[i].pc \in {"raised", "cleanup_raise"}

\* C4: of two instances on conflicting endpoints the one that binds second fails
\* with the bind error, after a single attempt, and never reports running; the one
\* that holds the endpoint stays running and listening
C4_SecondBindFails ==
    /\ \A i \in Idx : hist.binds[i] <= 1
    /\ \A i \in TaskIdx : Failed(i) => ~is_running(i) /\ lsn[i] = "none" /\ ~inst[i].server
    /\ \A i, j \in TaskIdx :
        i # j /\ Conflict(servers[i], servers[j]) =>
            /\ ~(lsn[i] = "open" /\ lsn[j] = "open")
            /\ ~_shutdown => ~(is_running(i) /\ is_running(j))
            /\ ~_shutdown /\ hist.binds[i] = 1 /\ hist.binds[j] = 1 => Failed(i) \/ Failed(j)
            /\ ~_shutdown /\ Failed(j) /\ tasks[i].pc = "serving" =>
                   is_running(i) /\ lsn[i] = "open"

\* two echo instances on 127.0.0.1:8080: the second one's start has raised, the
\* first is serving
C4_Witness ==
    /\ Len(tasks) = 2
    /\ servers[1] = servers[2] /\ servers[1].port = 8080
    /\ tasks[1].pc = "serving" /\ is_running(1) /\ lsn[1] = "open"
    /\ tasks[2].pc = "raised" /\ ~is_running(2)

\* the stop_all that found the flag unset has returned
StopAllReturned == hist.by >= 0 /\ sa[hist.by] = "done"

\* C5: when every instance was up (or had ended) as stop_all was called, no instance
\* reports running once that stop_all has returned
C5_StoppedAfterStopAll ==
    StopAllReturned /\ hist.upAtStop => \A i \in Idx : ~is_running(i)

\* stop_all returned after an echo connection was echoed and a web request answered,
\* with both instances serving when it was called
C5_Witness ==
    /\ StopAllReturned /\ hist.upAtStop
    /\ \A i \in Idx : hist.binds[i] = 1 /\ inst[i].server
    /\ conns # <<>> /\ conns[1].out # <<>>
    /\ resp # NoResponse

\* a stop_all that runs and finds the flag set returns at once and changes nothing
SecondStopAllIsNoop ==
    \A k \in DOMAIN sa :
        sa[k] = "created" /\ _shutdown /\ sa'[k] \notin {"created", "cancelled"} =>
            /\ sa'[k] = "done"
            /\ UNCHANGED <<servers, inst, lsn, tasks, stops, _shutdown, conns>>

\* C6: shutdown is idempotent: a stop_all after the first one is a no-op, and the
\* flag goes from false to true once and never back
C6_ShutdownIdempotent ==
    /\ [](hist.stopRuns <= 1 /\ (_shutdown <=> hist.stopRuns = 1))
    /\ [][_shutdown => _shutdown']_vars
    /\ [][SecondStopAllIsNoop]_vars

\* a second stop_all has returned as a no-op after the first one had completed, and
\* every instance is stopped
C6_Witness ==
    /\ hist.noop = "after" /\ StopAllReturned
    /\ \E k \in DOMAIN sa : k # hist.by /\ sa[k] = "done"
    /\ \A i \in Idx : ~is_running(i) /\ lsn[i] # "open"
    /\ \E i \in Idx : inst[i].server

\* C7: SIGINT and SIGTERM both lead to stop_all, and however many triggers arrive
\* the instances are stopped once
C7_StopOnce ==
    /\ mainPc # "killed"
    /\ \A k \in 1..Len(sigLog) : sa[k] # "none"
    /\ hist.stopRuns <= 1
    /\ Cardinality({k \in DOMAIN sa : sa[k] = "gather"}) <= 1
    /\ mainPc \in {"returned", "closed"} => hist.stopRuns = 1

\* a SIGTERM and a SIGINT were delivered, the stop_all of the SIGTERM did the
\* stopping, the other one and run_servers' own returned at once
C7_Witness ==
    /\ sigLog = <<"SIGTERM", "SIGINT">>
    /\ hist.by = 1 /\ sa = [k \in 0..2 |-> "done"]
    /\ hist.stopRuns = 1

\* C8: start_all has returned only if every serving task has ended
C8_ReturnsWhenAllEnded ==
    mainPc \in {"finally", "stopping", "returned", "closed"} => \A i \in TaskIdx : done(tasks[i])

\* start_all has returned with one task ended by an error and one by a stop
C8_Witness ==
    /\ mainPc = "finally"
    /\ \E i, j \in TaskIdx : tasks[i].pc = "raised" /\ tasks[j].pc = "returned" /\ inst[j].server

\* C9: while no shutdown was triggered, a serving task that ended with an error
\* leaves the others alone: none is cancelled or stopped, and start_all keeps waiting
C9_ErrorDoesNotStopOthers ==
    (sigLog = <<>> /\ \E i \in TaskIdx : Failed(i)) =>
        \A j \in TaskIdx :
            ~done(tasks[j]) =>
                /\ ~tasks[j].cancel
                /\ mainPc = "gather" /\ ~_shutdown /\ stops = <<>>
                /\ tasks[j].pc = "serving" => is_running(j) /\ lsn[j] = "open"

\* a web instance serves while its sibling's start has raised
C9_Witness ==
    \E i, j \in TaskIdx :
        /\ tasks[i].pc = "raised" /\ servers[j].kind = "web"
        /\ tasks[j].pc = "serving" /\ is_running(j) /\ mainPc = "gather"

\* the step in which a handler meets a read or write error changes that connection only
ErrorIsLocal ==
    \A c \in DOMAIN conns :
        conns[c].why # "error" /\ conns'[c].why = "error" =>
            /\ UNCHANGED <<servers, inst, lsn, tasks>>
            /\ \A d \in DOMAIN conns \ {c} : conns'[d] = conns[d]

\* C10: a read or write error ends that connection's handler only, which closes the
\* connection; the listener stays open and accepts, the other connections are as
\* they were and go on being echoed exactly
C10_ErrorIsLocal ==
    /\ [](\A c \in DOMAIN conns :
            conns[c].why = "error" =>
                /\ conns[c].closed /\ conns[c].pc \in {"closing", "done"}
                /\ lsn[conns[c].srv] = "open" /\ ~done(tasks[conns[c].srv])
                /\ Len(conns) < lim.conns => ENABLED client_connect(conns[c].srv)
                /\ \A d \in DOMAIN conns : conns[d].out = Received(conns[d]))
    /\ [][ErrorIsLocal]_vars

\* the first connection ended on an error and is closed; a later one on the same
\* listener was echoed to its end
C10_Witness ==
    /\ Len(conns) = 2 /\ conns[1].srv = conns[2].srv
    /\ conns[1].why = "error" /\ conns[1].pc = "done" /\ conns[1].closed
    /\ conns[2].why = "eof" /\ Len(conns[2].out) = 2

\* a step in which a read returns writes exactly the bytes of that read, at most
\* MaxRead of them, and suspends the handler on the drain; a read is issued only at
\* the accept or when the drain of the last write has returned
ReadThenWriteThenDrain ==
    \A c \in DOMAIN conns :
        /\ conns'[c].nread # conns[c].nread =>
              /\ conns[c].pc = "read" /\ conns'[c].pc = "drain"
              /\ conns'[c].nread > conns[c].nread
              /\ conns'[c].nread - conns[c].nread <= MaxRead
              /\ conns'[c].out =
                     conns[c].out \o SubSeq(conns[c].fed, conns[c].nread + 1, conns'[c].nread)
        /\ conns'[c].out # conns[c].out => conns'[c].nread # conns[c].nread
        /\ conns[c].pc # "read" /\ conns'[c].pc = "read" =>
              conns[c].pc = "drain" /\ conns'[c].out = conns[c].out

\* C11: within one echo connection reads and writes alternate: write N carries the
\* bytes of read N (at most one buffer), follows it, and its drain has returned
\* before read N+1 is issued; nothing read is held back for a later write
C11_ReadWriteAlternate ==
    /\ [](\A c \in DOMAIN conns : conns[c].out = Received(conns[c]))
    /\ [][ReadThenWriteThenDrain]_vars

\* three bytes, more than one read returns, came back in at least two reads and as
\* many writes, and the handler is at its next read
C11_Witness ==
    /\ conns # <<>> /\ conns[1].pc = "read"
    /\ Len(conns[1].fed) = 3 /\ conns[1].nread = 3 /\ conns[1].out = conns[1].fed

\* the peer of c sent nothing and closed its write side
EmptyThenClosed(c) == c.fed = <<>> /\ c.eof

\* C12: a connection whose peer sends nothing and closes its write side gets nothing
\* written back; its handler leaves the loop at the first read, for the end of the
\* stream and not for an error, and closes the connection
C12_EmptyConnection ==
    \A c \in DOMAIN conns :
        EmptyThenClosed(conns[c]) =>
            /\ conns[c].out = <<>>
            /\ conns[c].why \in {"open", "eof"}
            /\ conns[c].why = "open" => conns[c].pc = "read" /\ ENABLED echo_eof(c)
            /\ conns[c].why = "eof" => conns[c].closed /\ conns[c].pc \in {"closing", "done"}

\* such a connection has been closed by its handler, which has ended
C12_Witness ==
    /\ conns # <<>> /\ EmptyThenClosed(conns[1])
    /\ conns[1].pc = "done" /\ conns[1].closed /\ conns[1].why = "eof" /\ conns[1].out = <<>>

\* the next step of connection d's handler can be taken
CanProceed(d) ==
    LET r == conns[d]
    IN  /\ r.pc = "read" /\ rbuf(r) # <<>> => ENABLED echo_read(d)
        /\ r.pc = "read" /\ rbuf(r) = <<>> /\ r.eof => ENABLED echo_eof(d)
        /\ r.pc = "drain" => ENABLED echo_drained(d)
        /\ r.pc = "closing" => ENABLED echo_closed(d)

\* C13: no connection blocks another: whatever the other connections are doing (peer
\* idle, handler suspended on its read or its drain), a handler whose own read or
\* drain can return takes its step, every open echo listener accepts and every open
\* web listener answers
C13_NoBlocking ==
    /\ \A d \in DOMAIN conns : ~conns[d].broken /\ ~conns[d].cancel => CanProceed(d)
    /\ \A i \in Idx :
          lsn[i] = "open" =>
              IF servers[i].kind = "echo"
              THEN Len(conns) < lim.conns => ENABLED client_connect(i)
              ELSE \A m \in Methods, p \in Paths : ENABLED handle_request(i, m, p)

\* the first connection is idle at its read; a later one on the same listener was
\* echoed to its end and closed, and a web request was answered
C13_Witness ==
    /\ Len(conns) = 2 /\ conns[1].srv = conns[2].srv
    /\ conns[1].pc = "read" /\ conns[1].fed = <<>> /\ ~conns[1].eof /\ ~conns[1].broken
    /\ conns[2].pc = "done" /\ conns[2].why = "eof" /\ conns[2].out = conns[2].fed
    /\ conns[2].fed # <<>>
    /\ resp # NoResponse

\* the manager called stop() on instance i while its listening socket was bound
StoppedWhileBound(i) == i \in DOMAIN stops /\ hist.lsnAtStop[i] = "open"

\* C14: for an instance whose listener was bound, stop() closes the listening socket
\* before it waits for anything, and once it has returned the socket is closed and
\* the instance accepts no connection and answers no request
C14_StopClosesListener ==
    \A i \in Idx :
        StoppedWhileBound(i) =>
            /\ stops[i] \in {"wait_closed", "cleanup", "done"} => lsn[i] = "closed"
            /\ stops[i] = "done" =>
                  /\ ~ENABLED client_connect(i)
                  /\ \A m \in Methods, p \in Paths : ~ENABLED handle_request(i, m, p)

\* a shutdown was triggered: a stop_all invocation exists
Triggered == \E k \in DOMAIN sa : sa[k] # "none"

\* every stop_all invocation is over and every serving task has ended
ShutDown ==
    /\ \A k \in DOMAIN sa : sa[k] \in {"none", "done", "cancelled"}
    /\ \A i \in TaskIdx : done(tasks[i])

\* C15: shutdown is bounded: after a trigger stop_all comes to its end and every
\* serving task ends, whatever the peers of the open connections do or do not do
C15_ShutdownBounded == Triggered ~> ShutDown

KnownKind(c) == c.type \in {"echo", "web"}

UnknownKind(c) == ~KnownKind(c)

\* the instance s is the one description c asks for
BuiltFrom(s, c) ==
    /\ s.kind = c.type /\ s.port = c.port /\ s.bind_address = c.bind_address
    /\ c.type = "web" => s.content = c.content

\* C16: create_servers builds one instance per description of kind echo or web, in
\* the order of the configuration and with its port, bind address and content; a
\* description of another kind is reported and skipped, the ones after it are built
C16_OnePerKnownSpec ==
    IF mainPc = "init"
    THEN servers = <<>> /\ hist.errors = <<>>
    ELSE LET known == SelectSeq(config, KnownKind)
             unknown == SelectSeq(config, UnknownKind)
         IN  /\ Len(servers) = Len(known)
             /\ \A i \in DOMAIN servers : BuiltFrom(servers[i], known[i])
             /\ Len(hist.errors) = Len(unknown)
             /\ \A i \in DOMAIN unknown : hist.errors[i] = unknown[i].type

\* a description of an unknown kind between an echo and a web one: both are built
C16_Witness ==
    /\ mainPc # "init" /\ Len(config) = 3
    /\ config[1].type = "echo" /\ config[2].type = "ECHO" /\ config[3].type = "web"
    /\ Len(servers) = 2 /\ servers[1].kind = "echo" /\ servers[2].kind = "web"
    /\ servers[2].port = config[3].port /\ hist.errors = <<"ECHO">>

\* start_all called on an empty instance list returns at once and creates no task
EmptyStartReturns ==
    servers = <<>> /\ mainPc = "handlers" => mainPc' = "finally" /\ tasks' = <<>>

\* C17: with an empty instance list start_all fails fast: it returns without
\* creating a serving task, and the manager is never Running (awaiting its tasks)
C17_EmptyFailsFast ==
    /\ [](servers = <<>> => tasks = <<>> /\ mainPc # "gather")
    /\ [][EmptyStartReturns]_vars

\* start_all has returned on the empty list built from descriptions of unknown kinds
C17_Witness ==
    /\ config # <<>> /\ servers = <<>> /\ mainPc = "finally" /\ tasks = <<>>

\* no instance could start: there is none, or the bind of every one failed
NoneStarted == servers = <<>> \/ (tasks # <<>> /\ \A i \in TaskIdx : tasks[i].pc = "raised")

Terminated == mainPc \in {"exit1", "closed"}

\* C18: a run in which no instance could start (empty instance list, or every bind
\* failed) ends with a non-zero exit status
C18_FatalStartupExit == NoneStarted /\ Terminated => exit_status # 0

\* the step in which a stop_all leaves its gather returns normally and has asked
\* every serving task that is not done to cancel
StopAllEndsByCancelling ==
    \A k \in DOMAIN sa :
        sa[k] = "gather" /\ sa'[k] \notin {"gather", "cancelled"} =>
            /\ sa'[k] = "done"
            /\ tasks' = [i \in TaskIdx |-> cancel(tasks[i])]

\* C19: when the stop of one instance raises, stop_all still runs the stop of every
\* other instance to its end, still cancels the serving tasks that are not done,
\* and returns without raising
C19_StopFailureTolerated ==
    /\ [](\A k \in DOMAIN sa : sa[k] # "raised")
    /\ [](StopAllReturned => \A i \in DOMAIN stops : stops[i] \in {"done", "raised"})
    /\ [][StopAllEndsByCancelling]_vars

\* stop_all has returned although the first instance's stop raised; the second
\* instance was stopped and the first one's task was asked to cancel
C19_Witness ==
    /\ StopAllReturned /\ Len(stops) = 2
    /\ stops[1] = "raised" /\ stops[2] = "done" /\ inst[2].server /\ ~is_running(2)
    /\ lsn[2] = "closed" /\ tasks[1].cancel

\* C20: a stopped instance is not restarted: a start() called on an instance after
\* its stop() completed binds no listener and does not make is_running() true
C20_NoRestart ==
    \A i \in hist.again : lsn[i] # "open" /\ ~is_running(i)

\* what upstream validation asks of one instance
ValidInstance(s) ==
    /\ s.port \in 1..MaxPort
    /\ s.kind = "web" => s.content # None /\ s.content # <<>>

\* C21: an invalid description is refused at construction: no instance with a port
\* outside 1..65535, and no web instance without content, is ever built or started
C21_InvalidRejected ==
    /\ \A i \in Idx : ValidInstance(servers[i])
    /\ \A i \in TaskIdx : ValidInstance(servers[i])

\* the handler of c has left its loop
LeftLoop(c) == c.closed \/ c.pc \in {"closing", "done"}

\* it left because a read returned zero bytes: the peer had closed its write side
\* and everything it sent had been read
ClosedByPeer(c) == c.why = "eof" /\ c.eof /\ c.nread = Len(c.fed)

\* it left because its task was cancelled, which only the end of the run does
ClosedByStop(c) == c.why = "cancelled" /\ _shutdown /\ mainPc = "closed"

\* it left because a read or a drain raised: the connection was broken
ClosedByError(c) == c.why = "error" /\ c.broken

\* C22 as stated: a handler closes its connection only after a read returned zero
\* bytes or because the server is being stopped
C22_ClosesOnlyOnEofOrStop ==
    \A c \in DOMAIN conns :
        LeftLoop(conns[c]) => ClosedByPeer(conns[c]) \/ ClosedByStop(conns[c])

\* C22: an echo handler closes its connection only after a read returned zero bytes,
\* after a read or write error on that connection, or because the run is being shut
\* down; a connection its peer keeps open and intact during serving stays open
C22_ClosesOnlyMirroring ==
    \A c \in DOMAIN conns :
        /\ LeftLoop(conns[c]) =>
              /\ conns[c].closed
              /\ ClosedByPeer(conns[c]) \/ ClosedByStop(conns[c]) \/ ClosedByError(conns[c])
        /\ ~conns[c].eof /\ ~conns[c].broken /\ mainPc # "closed" => ~LeftLoop(conns[c])

\* a connection whose peer sent a byte, got it back and kept the connection open was
\* closed only when the run ended
C22_Witness ==
    /\ conns # <<>> /\ conns[1].closed /\ ClosedByStop(conns[1])
    /\ ~conns[1].eof /\ ~conns[1].broken /\ conns[1].out # <<>>

\* a port the claim admits: an integer from 1 to 65535 (True is the integer 1)
IsPortNumber(p) == (p[1] = "int" /\ p[2] >= 1 /\ p[2] <= 65535) \/ p = PyBool(TRUE)
PortNumber(p) == IF p[1] = "int" THEN p[2] ELSE 1

\* the configurations the claim says are accepted
Acceptable(ss) ==
    /\ Len(ss) >= 1 /\ Len(ss) <= 10
    /\ \A i \in DOMAIN ss :
          /\ ss[i].type \in {PyStr("echo"), PyStr("web")}
          /\ IsPortNumber(ss[i].port)
          /\ ss[i].type = PyStr("web") => ss[i].content[1] = "str" /\ Len(ss[i].content[2]) > 0
    /\ \A i, j \in DOMAIN ss : i # j => PortNumber(ss[i].port) # PortNumber(ss[j].port)

\* C23: Config.validate returns exactly for the configurations of 1 to 10 servers,
\* each of type echo or web with an integer port in 1..65535, each web server with
\* non-empty content, the ports pairwise distinct; for every other it raises ValueError
C23_ValidateExact ==
    \/ io.validated = NotCalled
    \/ Acceptable(io.obj) /\ io.validated = Returned(PyNone)
    \/ ~Acceptable(io.obj) /\ io.validated = Raised("ValueError")

\* validate has accepted a configuration of exactly ten servers
C23_Witness ==
    /\ Len(io.obj) = 10
    /\ io.validated = Returned(PyNone)

\* C24: Config.from_dict(c.to_dict()) holds the servers of c, in order and field by
\* field, for every c; Config.load of the file save wrote for a valid c returns them too
C24_RoundTrip ==
    /\ io.restored # NotCalled => io.restored = Returned(io.obj)
    /\ io.file # NoFile /\ io.loaded \notin {NotCalled, Raised("FileNotFoundError")}
          /\ Acceptable(io.obj)
          => io.loaded = Returned(io.obj)

\* a saved file of two servers, one of them on the loopback address, was loaded back
C24_Witness ==
    /\ Len(io.obj) = 2
    /\ io.obj[1].bind_address = PyStr(Loopback)
    /\ io.obj[2].content = PyStr(PlainText)
    /\ io.file # NoFile
    /\ io.loaded = Returned(io.obj)
    /\ io.restored = Returned(io.obj)

\* C25: however the shutdown trigger interleaves with startup, once the stop_all
\* that found the flag unset has returned, no instance reports running and no
\* listening socket is bound, then and ever after
C25_StoppedWhateverTheTiming ==
    StopAllReturned => \A i \in Idx : ~is_running(i) /\ lsn[i] # "open"

\* the step of start() that follows its successful bind
StartAfterBind(i) == i \in TaskIdx /\ tasks[i].pc = "bound" /\ tasks'[i].pc = "serving"

\* the start() of instance i has ended in a bind failure
BindFailed(i) == i \in TaskIdx /\ tasks[i].pc \in {"raised", "cleanup_raise"}

\* C26: is_running() is true only after start() bound the listening socket: a fresh
\* instance is not running, only start()'s own step after the bind makes an instance
\* running, and an instance whose bind failed is not running
C26_RunningOnlyAfterBind ==
    /\ [](\A i \in Idx :
            /\ is_running(i) => hist.binds[i] >= 1 /\ lsn[i] # "none" /\ inst[i].server
            /\ i \notin TaskIdx \/ tasks[i].pc = "created" => ~is_running(i)
            /\ BindFailed(i) => ~is_running(i) /\ lsn[i] = "none")
    /\ [][\A i \in Idx : ~is_running(i) /\ is_running(i)' => StartAfterBind(i)]_vars

\* of two instances on one endpoint, one is running after its bind and the other's
\* bind has failed
C26_Witness ==
    \E i, j \in Idx :
        /\ is_running(i) /\ hist.binds[i] = 1 /\ lsn[i] = "open"
        /\ BindFailed(j) /\ ~is_running(j) /\ lsn[j] = "none"
        /\ Conflict(servers[i], servers[j])

\* C27: once create_servers has built the list of instances, no later step changes
\* it: not start_all, stop_all, a signal, a serving task or a connection handler
C27_ServersFrozen ==
    /\ [](mainPc # "init" => servers = create_servers(config))
    /\ [][mainPc # "init" => servers' = servers]_vars

\* a run with two instances was served, signalled, shut down and torn down, and the
\* list is the one create_servers built
C27_Witness ==
    /\ mainPc = "closed" /\ StopAllReturned /\ sigLog # <<>>
    /\ Len(servers) = 2 /\ servers = create_servers(config)
    /\ conns # <<>> /\ conns[1].out # <<>>
    /\ resp # NoResponse

\* start_all is past its summary
Summarised == servers # <<>> /\ mainPc \notin {"init", "created", "handlers", "killed"}

\* C28: the host's addresses are enumerated only when an instance binds 0.0.0.0, and
\* whether the enumeration finds addresses, finds none or fails, startup goes on:
\* start_all creates the serving task of every instance, awaits them, and returns
\* only when all of them have ended
C28_EnumerationNeverAborts ==
    /\ [](hist.ips.attempted => \E i \in Idx : servers[i].bind_address = Wildcard)
    /\ [](Summarised => DOMAIN tasks = Idx /\ hist.ips.active.raises = "")
    /\ [](Summarised /\ mainPc # "gather" => \A i \in TaskIdx : done(tasks[i]))
    /\ [][mainPc = "handlers" /\ servers # <<>> => mainPc' = "gather"]_vars

\* the resolver failed during the summary, and both instances are serving
C28_Witness ==
    /\ hist.ips.attempted /\ hist.ips.net.addr_info.raises # ""
    /\ hist.ips.active = Returned(<<>>)
    /\ mainPc = "gather" /\ Len(servers) = 2
    /\ \A i \in Idx : is_running(i) /\ lsn[i] = "open"

====
